---------------------------- MODULE Spec2Model ----------------------------
(***************************************************************************)
(* Model of the fingerprint de-duplication core of books-tools:            *)
(*   - ImageComparerHamming::Compare   (lib/UniqueFile.cpp)                *)
(*   - UniqueFileStorage::Add / Save   (lib/UniqueFile.cpp)                *)
(*   - the flihasher worker pool       (tool/flihasher/flihasher.cpp)      *)
(*                                                                         *)
(* Conventions.  A QString hash is a natural number, 0 being the empty     *)
(* string, and the order of the numbers is the order of the strings.  A    *)
(* 64-bit perceptual hash is the set of its set bits (a subset of 0..63),  *)
(* so that popcount(a ^ b) is the size of the symmetric difference and     *)
(* pHash == 0 is the empty set.  A byte array is 1 (bytes) or 0 (empty).   *)
(***************************************************************************)
EXTENDS Integers, Sequences, FiniteSets, TLC

VARIABLES
    \* ---- UniqueFileStorage (lib/UniqueFile.h:176-190)
    m_old,          \* persisted: contentHash -> bucket (sequence of UniqueFile)
    m_new,          \* pending: contentHash -> bucket of <<canonical, duplicates>>
    m_dup,          \* rejected: sequence of Dup {file, origin}
    m_conflictResolver, \* the installed IUniqueFileConflictResolver
    observed,       \* calls received by IDuplicateObserver::OnDuplicateFound
    nAdds,          \* number of Add calls so far
    nSaves,         \* number of Save calls so far
    nSets,          \* number of SetImages calls so far
    last,           \* the last call to the storage: its arguments and result
    \* ---- one call of ImageComparer::Compare
    cmp,
    \* ---- one call of another function: its input, then its result
    call,
    \* ---- flihasher pipeline (tool/flihasher/flihasher.cpp)
    nFiles,         \* fileList.size()
    maxThreadCount, \* options.maxThreadCount
    ppc,            \* position of the producer thread (ProcessArchive)
    pfile,          \* index of the file the producer is handling
    wpc,            \* position of each worker thread
    witem,          \* the item a worker has dequeued and is processing
    wstop,          \* stop requested on the worker's stop token
    wresults,       \* Worker::m_results of each worker
    m_queue,        \* TaskProcessor::m_queue
    m_queueSize,    \* TaskProcessor::m_queueSize (unsigned 32 bit, see ULess)
    m_queueGuard,   \* threads owning the queue mutex: none or one
    waiting,        \* threads blocked in queueCondition.wait
    joining,        \* index of the worker that Wait() is destroying
    m_results,      \* TaskProcessor::m_results
    \* ---- threads calling the storage (lib/UniqueFile.h:178)
    callers,        \* each calling thread: the operation it is in and where
    m_guard         \* threads owning UniqueFileStorage::m_guard: none or one

svars == <<m_old, m_new, m_dup, m_conflictResolver, observed, nAdds, nSaves, nSets,
           last>>
cvars == <<cmp, call>>
pvars == <<nFiles, maxThreadCount, ppc, pfile, wpc, witem, wstop, wresults,
           m_queue, m_queueSize, m_queueGuard, waiting, joining, m_results>>
gvars == <<callers, m_guard>>
vars == <<svars, cvars, pvars, gvars>>

-----------------------------------------------------------------------------
(* Basic data *)

Equal  == "Equal"
Inner  == "Inner"
Outer  == "Outer"
Varied == "Varied"
ImagesCompareResult == {Equal, Inner, Outer, Varied}

\* hammingThreshold, the default argument of the constructor.
m_threshold == 10

\* The transliteration filler token Add strips from the candidate's title.
m_si == "si"

\* The storage is always built with a hash directory by the tools of the
\* repository (an absolute path is never empty).
m_hashDirIsEmpty == FALSE

\* Perceptual hashes used as inputs: zero (not computed), and three hashes
\* with popcount(PA ^ PB) = 10, popcount(PA ^ PC) = 11, popcount(PB ^ PC) = 1.
PZero == {}
PA == {1}
PB == 1..11
PC == 1..12

PopCountXor(a, b) == Cardinality((a \ b) \cup (b \ a))

NoImage == [fileName |-> "", hash |-> 0, pHash |-> PZero, body |-> 0]

Image(h, p) == [fileName |-> "img", hash |-> h, pHash |-> p, body |-> 1]

Cover(h, p) == [fileName |-> "cover", hash |-> h, pHash |-> p, body |-> 1]

\* Util::Intersect: do the two token sets share a token.
Intersect(a, b) == a \cap b # {}

\* std::set<ImageItem> iterates in the order of ImageItem::operator<, the
\* order of the cryptographic hash.
RECURSIVE SortedImages(_)
SortedImages(S) ==
    IF S = {} THEN <<>>
    ELSE LET m == CHOOSE x \in S : \A y \in S : x.hash <= y.hash
         IN <<m>> \o SortedImages(S \ {m})

\* ClearImages leaving the file as it is.
ClearImagesKeepingBytes(f) == f

\* UniqueFile::ClearImages: the cover keeps its hashes and loses its bytes,
\* every image is replaced by an item carrying its hash alone.
ClearImages(f) ==
    [f EXCEPT !.cover.body = 0,
              !.images = { [NoImage EXCEPT !.hash = i.hash] : i \in f.images }]

-----------------------------------------------------------------------------
(* ImageComparerHamming::Compare *)

\* The cover part: the result so far, or Varied returned at once.
CoverResult(lhs, rhs) ==
    IF lhs.cover.hash = rhs.cover.hash THEN Equal
    ELSE IF lhs.cover.hash = 0 THEN Inner
    ELSE IF rhs.cover.hash = 0 THEN Outer
    ELSE IF \/ lhs.cover.pHash = PZero
            \/ rhs.cover.pHash = PZero
            \/ PopCountXor(lhs.cover.pHash, rhs.cover.pHash) > m_threshold
         THEN Varied
    ELSE Equal

\* The merge walk over the two sorted image sets: it stops as soon as one
\* side is exhausted.  i, j are the positions reached.
RECURSIVE Walk(_, _, _, _, _, _)
Walk(L, R, i, j, lp, rp) ==
    IF i > Len(L) \/ j > Len(R)
    THEN [lp |-> lp, rp |-> rp, i |-> i, j |-> j]
    ELSE IF L[i].hash < R[j].hash THEN Walk(L, R, i + 1, j, Append(lp, L[i].pHash), rp)
    ELSE IF L[i].hash > R[j].hash THEN Walk(L, R, i, j + 1, lp, Append(rp, R[j].pHash))
    ELSE Walk(L, R, i + 1, j + 1, lp, rp)

\* The perceptual hashes of the items L[i..].
RECURSIVE TailHashes(_, _)
TailHashes(L, i) == IF i > Len(L) THEN <<>> ELSE <<L[i].pHash>> \o TailHashes(L, i + 1)

\* The predicate of find_if: an rhs hash within the threshold of lItem.
Matches(lItem, rItem) == PopCountXor(lItem, rItem) <= m_threshold

RemoveAt(s, k) == [n \in 1..(Len(s) - 1) |-> IF n < k THEN s[n] ELSE s[n + 1]]

\* erase_if over lpHashes, in order: a zero hash stays; otherwise the first
\* rhs hash (in the iteration order of rpHashes) that matches is erased
\* together with the lhs hash.  `matched` lists the pairs erased.
RECURSIVE EraseIf(_, _, _, _, _)
EraseIf(lp, rp, k, kept, matched) ==
    IF k > Len(lp) THEN [lp |-> kept, rp |-> rp, matched |-> matched]
    ELSE IF lp[k] = PZero THEN EraseIf(lp, rp, k + 1, Append(kept, lp[k]), matched)
    ELSE LET hits == { n \in 1..Len(rp) : Matches(lp[k], rp[n]) }
         IN IF hits = {} THEN EraseIf(lp, rp, k + 1, Append(kept, lp[k]), matched)
            ELSE LET n == CHOOSE x \in hits : \A y \in hits : x <= y
                 IN EraseIf(lp, RemoveAt(rp, n), k + 1, kept,
                            Append(matched, [l |-> lp[k], r |-> rp[n]]))

\* rpHashes is an unordered_multiset: its iteration order is any order.
Orders(s) ==
    { [n \in 1..Len(s) |-> s[p[n]]] :
        p \in { q \in [1..Len(s) -> 1..Len(s)] :
                  \A a, b \in 1..Len(s) : a # b => q[a] # q[b] } }

\* The residual hash lists left when the images have been compared, one for
\* every iteration order of rpHashes.
Residuals(lhs, rhs) ==
    LET L == SortedImages(lhs.images)
        R == SortedImages(rhs.images)
        w == Walk(L, R, 1, 1, <<>>, <<>>)
    IN IF ~(w.lp = <<>> \/ w.rp = <<>>)
       THEN { EraseIf(w.lp \o TailHashes(L, w.i), o, 1, <<>>, <<>>) :
                o \in Orders(w.rp \o TailHashes(R, w.j)) }
       ELSE { [lp |-> w.lp, rp |-> w.rp, matched |-> <<>>] }

\* Compare without its last check on the titles.
ClassifyTrusting(lhs, rhs, res) ==
    LET r0 == CoverResult(lhs, rhs)
        r1 == IF res.lp # <<>> THEN (IF r0 = Inner THEN Varied ELSE Outer) ELSE r0
        r2 == IF res.rp # <<>> THEN (IF r1 = Outer THEN Varied ELSE Inner) ELSE r1
    IN IF r0 = Varied \/ r1 = Varied THEN Varied ELSE r2

\* The end of Compare, from the cover result and one residual.
Classify(lhs, rhs, res) ==
    LET r0 == CoverResult(lhs, rhs)
        r1 == IF res.lp # <<>> THEN (IF r0 = Inner THEN Varied ELSE Outer) ELSE r0
        r2 == IF res.rp # <<>> THEN (IF r1 = Outer THEN Varied ELSE Inner) ELSE r1
    IN IF r0 = Varied THEN Varied
       ELSE IF r1 = Varied THEN Varied
       ELSE IF r2 = Varied THEN Varied
       ELSE IF ~(/\ (lhs.images = {} \/ rhs.images = {})
                 /\ (lhs.cover.hash = 0 \/ rhs.cover.hash = 0)) THEN r2
       ELSE IF Intersect(lhs.title, rhs.title) THEN r2
       ELSE Varied

\* The results Compare(lhs, rhs) can return.
Compare(lhs, rhs) == { Classify(lhs, rhs, res) : res \in Residuals(lhs, rhs) }

-----------------------------------------------------------------------------
(* Conflict resolvers *)

\* Files the metadata provider reports as deleted (or does not know).
DeletedFiles == {3}

\* isDeleted of the merger's resolver.
IsDeleted(item) == item.uid.file \in DeletedFiles

\* UniqueFileConflictResolver::Resolve(file, duplicate) of the storage
\* ("order", the default) and of the merger ("deleted"): should `file`
\* replace `duplicate`.
Resolve(file, duplicate) ==
    IF m_conflictResolver = "order"
    THEN file.order > duplicate.order
    ELSE IsDeleted(duplicate) /\ ~IsDeleted(file)

-----------------------------------------------------------------------------
(* UniqueFileStorage::Add *)

\* nullptr: Add returns a pointer to the canonical entry in m_new, held here
\* as its bucket and its place in the bucket, or no pointer.
None == [hash |-> 0, at |-> 0]

InsertAt(s, p, e) ==
    [n \in 1..(Len(s) + 1) |-> IF n < p THEN s[n] ELSE IF n = p THEN e ELSE s[n - 1]]

\* file.title.erase(m_si)
Normalize(file) == [file EXCEPT !.title = @ \ {m_si}]

\* The persisted loop with the test of the spec: continue on Outer.
OldIsSupersededOnOuter(r, file, old) ==
    \/ r = Outer
    \/ (r = Equal /\ file.hash # old.hash /\ Resolve(file, old))

\* The persisted loop without the test: the first entry that is not Varied
\* takes the candidate as its duplicate.
OldNeverSuperseded(r, file, old) == FALSE

\* The persisted loop going on after every Equal entry.
OldIsSupersededOnEqual(r, file, old) == r = Inner \/ r = Equal

\* The persisted loop: the candidate is kept in the race (continue) when the
\* persisted entry is Inner, or Equal with another file hash and the
\* resolver for the candidate.
OldIsSuperseded(r, file, old) ==
    \/ r = Inner
    \/ (r = Equal /\ file.hash # old.hash /\ Resolve(file, old))

\* The pending loop with a tie of order decided for the candidate.
NewKeepsCanonicalStrict(r, file, first) ==
    \/ r = Outer
    \/ /\ r = Equal
       /\ \/ Resolve(first, file)
          \/ (~Resolve(file, first) /\ first.order > file.order)

\* The pending loop: the candidate becomes a duplicate of the canonical.
NewKeepsCanonical(r, file, first) ==
    \/ r = Outer
    \/ /\ r = Equal
       /\ \/ Resolve(first, file)
          \/ (~Resolve(file, first) /\ first.order >= file.order)

\* m_new.emplace(hash, {file, {}}): the place of the new element among the
\* equivalent keys of an unordered_multimap is any.
EmplaceNew(hash, file) ==
    { [old |-> m_old,
       new |-> [m_new EXCEPT ![hash] = InsertAt(@, p, [first |-> file, second |-> <<>>])],
       dup |-> m_dup,
       obs |-> <<>>,
       ret |-> [hash |-> hash, at |-> p]] : p \in 1..(Len(m_new[hash]) + 1) }

\* The slot with its canonical replaced and the old duplicates forgotten.
DemoteDropping(item, file) ==
    [first |-> file, second |-> << ClearImages(item.first) >>]

\* The slot with its canonical replaced and the old canonical discarded.
DemoteDiscarding(item, file) == [first |-> file, second |-> item.second]

\* The slot of a pending canonical that `file` replaces: the old canonical
\* goes to the end of the duplicate list, stripped, and file takes its place.
Demote(item, file) ==
    [first |-> file, second |-> Append(item.second, ClearImages(item.first))]

\* The loop over m_new.equal_range(hash), from position i.
RECURSIVE ScanNew(_, _, _)
ScanNew(hash, file, i) ==
    IF i > Len(m_new[hash]) THEN EmplaceNew(hash, file)
    ELSE LET item == m_new[hash][i]
         IN UNION {
              IF r = Varied THEN ScanNew(hash, file, i + 1)
              ELSE IF NewKeepsCanonical(r, file, item.first)
              THEN { [old |-> m_old,
                      new |-> [m_new EXCEPT ![hash][i].second = Append(@, ClearImages(file))],
                      dup |-> m_dup,
                      obs |-> << [file |-> item.first.uid, duplicate |-> file.uid] >>,
                      ret |-> None] }
              ELSE { [old |-> m_old,
                      new |-> [m_new EXCEPT ![hash][i] = Demote(item, file)],
                      dup |-> m_dup,
                      obs |-> << [file |-> file.uid, duplicate |-> item.first.uid] >>,
                      ret |-> [hash |-> hash, at |-> i]] }
              : r \in Compare(item.first, file) }

\* The loop over m_old.equal_range(hash), from position i.
RECURSIVE ScanOld(_, _, _)
ScanOld(hash, file, i) ==
    IF i > Len(m_old[hash]) THEN ScanNew(hash, file, 1)
    ELSE LET old == m_old[hash][i]
         IN UNION {
              IF r = Varied THEN ScanOld(hash, file, i + 1)
              ELSE IF OldIsSuperseded(r, file, old) THEN ScanOld(hash, file, i + 1)
              ELSE { [old |-> m_old,
                      new |-> m_new,
                      dup |-> Append(m_dup, [file |-> ClearImages(file), origin |-> old]),
                      obs |-> << [file |-> old.uid, duplicate |-> file.uid] >>,
                      ret |-> None] }
              : r \in Compare(old, file) }

\* The states Add(hash, file) can end in, with what it returned.
AddOutcomes(hash, file0) ==
    LET file == Normalize(file0)
    IN IF m_hashDirIsEmpty THEN EmplaceNew(hash, file)
       ELSE ScanOld(hash, file, 1)

-----------------------------------------------------------------------------
(* UniqueFileStorage::Save *)

NoUid == [folder |-> "", file |-> 0]

\* A <book> element is the record of its attributes id, folder, file and
\* title and of its children <cover>, <image>, <duplicates> and the hash
\* sections; duplicates is NoUid when the element has no such child.

\* A <book> element without its <duplicates> child.
SerializeWithoutOrigin(file, origin) ==
    [id       |-> file.hashText,
     folder   |-> file.uid.folder,
     file     |-> file.uid.file,
     title    |-> file.title,
     cover    |-> IF file.cover.fileName # "" THEN file.cover.hash ELSE 0,
     images   |-> { i.hash : i \in file.images },
     duplicates |-> NoUid,
     sections |-> file.hashSections]

\* Serializer::Serialize(file, origin): the <book> element written.
Serialize(file, origin) ==
    [id       |-> file.hashText,
     folder   |-> file.uid.folder,
     file     |-> file.uid.file,
     title    |-> file.title,
     cover    |-> IF file.cover.fileName # "" THEN file.cover.hash ELSE 0,
     images   |-> { i.hash : i \in file.images },
     duplicates |-> IF origin.uid.file # 0 THEN origin.uid ELSE NoUid,
     sections |-> file.hashSections]

\* The lambda `save`: serialize, then drop the text hashes of the item.
Saved(item) == [item EXCEPT !.hashText = 0, !.hashSections = 0]

\* The calls of the lambda `rename` for the files of `items`.
Renames(items, moveDuplicates) ==
    IF moveDuplicates THEN [n \in 1..Len(items) |-> items[n].uid.file] ELSE <<>>

\* m_new as the list of its elements in one iteration order: the keys in
\* the order `keys`, the elements of a key in the order of its bucket.
RECURSIVE NewItems(_)
NewItems(keys) ==
    IF keys = <<>> THEN <<>>
    ELSE [n \in 1..Len(m_new[Head(keys)]) |->
            [hash |-> Head(keys), item |-> m_new[Head(keys)][n]]]
         \o NewItems(Tail(keys))

\* The loop of Save over m_dup.
RECURSIVE SaveDup(_, _, _, _, _, _)
SaveDup(dup, k, old, written, renamed, moveDuplicates) ==
    IF k > Len(dup) THEN [old |-> old, written |-> written, renamed |-> renamed]
    ELSE SaveDup(dup, k + 1, old,
                 Append(written, Serialize(dup[k].file, dup[k].origin)),
                 renamed \o Renames(<<dup[k].file>>, moveDuplicates),
                 moveDuplicates)

\* The loop of Save over m_new, then the loop over m_dup.
RECURSIVE SaveNew(_, _, _, _, _, _, _)
SaveNew(items, k, old, dup, written, renamed, moveDuplicates) ==
    IF k > Len(items) THEN { SaveDup(dup, 1, old, written, renamed, moveDuplicates) }
    ELSE LET hash     == items[k].hash
             newItems == items[k].item
             cleared  == ClearImages(newItems.first)
             stored   == Saved(cleared)
         IN UNION {
              SaveNew(items, k + 1,
                      [old EXCEPT ![hash] = InsertAt(@, p, stored)],
                      dup \o [n \in 1..Len(newItems.second) |->
                                [file |-> newItems.second[n], origin |-> stored]],
                      Append(written, Serialize(cleared, [uid |-> NoUid])),
                      renamed \o Renames(newItems.second, moveDuplicates),
                      moveDuplicates)
              : p \in 1..(Len(old[hash]) + 1) }

-----------------------------------------------------------------------------
(* The storage as a state machine *)

\* Bounds on the number of Add, of Save and of SetImages calls of a run.
MaxAdds == 3
MaxSaves == 2
MaxSetImages == 1

\* Content hashes (the keys of m_old and m_new).
Keys == {1}

\* The files of the archives: three names, two of them with the same
\* numeric rank (the order is parsed from the file name), two of them with
\* the same bytes (the same file in two archives).
FileNames == {1, 2, 3}

OrderOf(file) == IF file = 3 THEN 2 ELSE 1

HashOf(file) == IF file = 2 THEN 2 ELSE 1

I1 == Image(1, PA)
I2 == Image(2, PC)

\* What the fingerprinting found in a file: title tokens, cover, images.
Contents ==
    { [title |-> t, cover |-> c, images |-> i] :
        t \in { {"a"}, {"si"} }, c \in { NoImage, Cover(1, PA) },
        i \in { {}, {I1}, {I1, I2} } }

\* A fingerprinted file as the pipeline hands it to Add.
UniqueFile(hash, file, content) ==
    [uid          |-> [folder |-> "f", file |-> file],
     hash         |-> HashOf(file),
     title        |-> content.title,
     hashText     |-> hash,
     hashSections |-> 1,
     cover        |-> content.cover,
     images       |-> content.images,
     order        |-> OrderOf(file)]

\* The candidates of Add: a title without a word is looked at only for a
\* file without images.
Files(hash) ==
    { UniqueFile(hash, file, content) :
        file \in FileNames,
        content \in { c \in Contents : c.images # {} => c.title = {"a"} } }

Resolvers == {"order", "deleted"}

NoCall == [op |-> "none"]

StorageInit ==
    /\ m_old = [h \in Keys |-> <<>>]
    /\ m_new = [h \in Keys |-> <<>>]
    /\ m_dup = <<>>
    /\ m_conflictResolver \in Resolvers
    /\ observed = <<>>
    /\ nAdds = 0
    /\ nSaves = 0
    /\ nSets = 0
    /\ last = NoCall

\* UniqueFileStorage::Add(hash, file)
Add(hash, file) ==
    /\ nAdds < MaxAdds
    /\ \E out \in AddOutcomes(hash, file) :
         /\ m_old' = out.old
         /\ m_new' = out.new
         /\ m_dup' = out.dup
         /\ observed' = observed \o out.obs
         /\ last' = [op |-> "Add", hash |-> hash, file |-> file, ret |-> out.ret]
    /\ nAdds' = nAdds + 1
    /\ UNCHANGED <<m_conflictResolver, nSaves, nSets, cvars, pvars, gvars>>

KeyOrders == { o \in [1..Cardinality(Keys) -> Keys] : \A a, b \in DOMAIN o : a # b => o[a] # o[b] }

\* Save giving up when the output file cannot be opened.
SaveOutcomesNeedingFile(canOpen, moveDuplicates) ==
    IF canOpen
    THEN UNION { SaveNew(NewItems(keys), 1, m_old, m_dup, <<>>, <<>>, moveDuplicates) : keys \in KeyOrders }
    ELSE { [old |-> m_old, written |-> <<>>, renamed |-> <<>>] }

\* The states Save can end in, with what it wrote and renamed.
SaveOutcomes(canOpen, moveDuplicates) ==
    UNION { SaveNew(NewItems(keys), 1, m_old, m_dup, <<>>, <<>>, moveDuplicates) : keys \in KeyOrders }

\* UniqueFileStorage::Save(folder, moveDuplicates); canOpen tells whether
\* Serializer::Create could open the output file (else SerializerStub).
\* `last` keeps what was written and renamed, whether the output file was
\* opened, and whether Save went past its early returns.
Save(canOpen, moveDuplicates) ==
    /\ nSaves < MaxSaves
    /\ nSaves' = nSaves + 1
    /\ IF (\A h \in Keys : m_new[h] = <<>>) /\ m_dup = <<>>
       THEN /\ UNCHANGED <<m_old, m_new, m_dup>>
            /\ last' = [op |-> "Save", written |-> <<>>, renamed |-> <<>>,
                        opened |-> FALSE, done |-> FALSE]
       ELSE IF m_hashDirIsEmpty
       THEN /\ m_new' = [h \in Keys |-> <<>>]
            /\ UNCHANGED <<m_old, m_dup>>
            /\ last' = [op |-> "Save", written |-> <<>>, renamed |-> <<>>,
                        opened |-> FALSE, done |-> FALSE]
       ELSE \E out \in SaveOutcomes(canOpen, moveDuplicates) :
              /\ m_old' = out.old
              /\ m_new' = [h \in Keys |-> <<>>]
              /\ m_dup' = <<>>
              /\ last' = [op |-> "Save",
                          written |-> IF canOpen THEN out.written ELSE <<>>,
                          renamed |-> out.renamed,
                          opened |-> canOpen,
                          done |-> TRUE]
    /\ UNCHANGED <<m_conflictResolver, observed, nAdds, nSets, cvars, pvars, gvars>>

\* The covers and images given to SetImages, with their bytes.
ImageContents ==
    { [cover |-> Cover(1, PA), images |-> {I1}],
      [cover |-> NoImage, images |-> {I1, I2}] }

\* The first element of the bucket whatever its file name, or 0.
FindFirst(hash, fileName) == IF m_new[hash] = <<>> THEN 0 ELSE 1

\* The first element of the bucket whose canonical has the file name, or 0.
FindByFileName(hash, fileName) ==
    LET found == { n \in 1..Len(m_new[hash]) : m_new[hash][n].first.uid.file = fileName }
    IN IF found = {} THEN 0 ELSE CHOOSE n \in found : \A k \in found : n <= k

\* UniqueFileStorage::SetImages(hash, fileName, cover, images)
SetImages(hash, fileName, cover, images) ==
    /\ nSets < MaxSetImages
    /\ nSets' = nSets + 1
    /\ LET n == FindByFileName(hash, fileName)
       IN m_new' = IF n = 0 THEN m_new
                   ELSE [m_new EXCEPT ![hash][n].first.cover = cover,
                                      ![hash][n].first.images = images]
    /\ last' = [op |-> "SetImages", hash |-> hash, fileName |-> fileName,
                cover |-> cover, images |-> images]
    /\ UNCHANGED <<m_old, m_dup, m_conflictResolver, observed, nAdds, nSaves, cvars, pvars, gvars>>

StorageNext ==
    \/ \E hash \in Keys : \E file \in Files(hash) : Add(hash, file)
    \/ \E canOpen \in BOOLEAN, moveDuplicates \in BOOLEAN : Save(canOpen, moveDuplicates)

-----------------------------------------------------------------------------
(* HashParser and UniqueFileStorage::OnBookParsed *)

\* The attribute or the child `name` of a <book> element, `none` when the
\* element has none of that name.
ReadOf(book, name, none) == IF name \in DOMAIN book THEN book[name] ELSE none

\* HashParserImpl on one <book> element: the arguments it hands to
\* OnBookParsed.  The attributes read are id, hash, folder, file and title,
\* the children read are <cover>, <image>, <origin> and the sections.
HashParse(book) ==
    [id           |-> ReadOf(book, "id", 0),
     hash         |-> ReadOf(book, "hash", 0),
     folder       |-> ReadOf(book, "folder", ""),
     file         |-> ReadOf(book, "file", 0),
     title        |-> ReadOf(book, "title", {}),
     originFolder |-> ReadOf(book, "origin", NoUid).folder,
     originFile   |-> ReadOf(book, "origin", NoUid).file,
     cover        |-> [hash |-> ReadOf(book, "cover", 0), pHash |-> PZero],
     images       |-> { [id |-> "", hash |-> h, pHash |-> PZero] :
                          h \in ReadOf(book, "images", {}) },
     section      |-> ReadOf(book, "sections", 0)]

\* UniqueFileStorage::OnBookParsed on persisted buckets `old`: a book with
\* an origin is skipped, any other becomes a persisted entry under its id.
OnBookParsed(old, p) ==
    IF p.originFolder # "" THEN old
    ELSE [old EXCEPT ![p.id] =
            Append(@, [uid          |-> [folder |-> p.folder, file |-> p.file],
                       hash         |-> p.hash,
                       title        |-> p.title,
                       hashText     |-> p.id,
                       hashSections |-> 0,
                       cover        |-> [fileName |-> "", hash |-> p.cover.hash,
                                         pHash |-> p.cover.pHash, body |-> 0],
                       images       |-> { [fileName |-> i.id, hash |-> i.hash,
                                           pHash |-> i.pHash, body |-> 0] :
                                            i \in p.images },
                       order        |-> OrderOf(p.file)])]

\* The constructor of UniqueFileStorage over the document `written`:
\* HashParser::Parse hands each book to OnBookParsed.
RECURSIVE Load(_, _)
Load(old, written) ==
    IF written = <<>> THEN old
    ELSE Load(OnBookParsed(old, HashParse(Head(written))), Tail(written))

-----------------------------------------------------------------------------
(* Threads calling the storage: who takes m_guard *)

\* Bound on the number of threads calling the storage at once.
MaxCallers == 3

Callers == 1..MaxCallers

Operations == {"Add", "SetImages", "GetImages", "Save"}

\* Add (UniqueFile.cpp:478), SetImages (:462) and GetImages (:456) open
\* with std::lock_guard lock(m_guard); Save (:545-598) has no such line.
TakesGuard(op) == op \in {"Add", "SetImages", "GetImages"}

Outside == [op |-> "none", pc |-> "outside"]

GuardInit ==
    /\ callers = [t \in Callers |-> Outside]
    /\ m_guard = {}

\* Thread t calls an operation of the storage.
Call(t, op) ==
    /\ callers[t] = Outside
    /\ callers' = [callers EXCEPT ![t] = [op |-> op, pc |-> "called"]]
    /\ UNCHANGED <<m_guard, svars, cvars, pvars>>

\* std::lock_guard lock(m_guard): the thread goes on to the buckets once it
\* owns the mutex.
LockGuard(t) ==
    /\ callers[t].pc = "called"
    /\ TakesGuard(callers[t].op)
    /\ m_guard = {}
    /\ m_guard' = {t}
    /\ callers' = [callers EXCEPT ![t].pc = "buckets"]
    /\ UNCHANGED <<svars, cvars, pvars>>

\* An operation without the lock goes on to the buckets at once.
Unguarded(t) ==
    /\ callers[t].pc = "called"
    /\ ~TakesGuard(callers[t].op)
    /\ callers' = [callers EXCEPT ![t].pc = "buckets"]
    /\ UNCHANGED <<m_guard, svars, cvars, pvars>>

\* The operation returns; the lock_guard, if any, releases m_guard.
Return(t) ==
    /\ callers[t].pc = "buckets"
    /\ callers' = [callers EXCEPT ![t] = Outside]
    /\ m_guard' = m_guard \ {t}
    /\ UNCHANGED <<svars, cvars, pvars>>

GuardNext ==
    \/ \E t \in Callers, op \in Operations : Call(t, op)
    \/ \E t \in Callers : LockGuard(t)
    \/ \E t \in Callers : Unguarded(t)
    \/ \E t \in Callers : Return(t)

-----------------------------------------------------------------------------
(* The flihasher pipeline: ProcessArchive, TaskProcessor, Worker *)

\* Bounds on the number of files of the archive and on options.maxThreadCount.
MaxFiles == 3
MaxThreads == 2

\* The producer is thread 0, the workers are threads 1..PoolSize.
Producer == 0

Min(a, b) == IF a < b THEN a ELSE b

\* The poolSize given to TaskProcessor.
PoolSize == Min(maxThreadCount, nFiles)

Workers == 1..PoolSize

\* m_queueSize is an unsigned 32-bit counter, held here as the signed
\* reading of the same 32 bits: 0 - 1 is 0xFFFFFFFF, read -1.  ULess is the
\* unsigned comparison of two such words.
ULess(a, b) == IF (a >= 0) = (b >= 0) THEN a < b ELSE a >= 0

\* The producer never waiting.
QueueNeverTooFull == TRUE

\* The predicate the producer waits for.
QueueNotTooFull == ULess(m_queueSize, maxThreadCount * 2)

\* notify_all on queueCondition: every blocked thread evaluates its
\* predicate again.
NotifyAll == {}

\* The results left in the order the workers were joined.
Unsorted(s) == s

\* std::ranges::sort(m_results, {}, &BookTaskItem::file)
RECURSIVE SortByFile(_)
SortByFile(s) ==
    IF s = <<>> THEN <<>>
    ELSE LET k == CHOOSE a \in 1..Len(s) : \A b \in 1..Len(s) : s[a] <= s[b]
         IN <<s[k]>> \o SortByFile(RemoveAt(s, k))

PipelineInit ==
    /\ nFiles \in 0..MaxFiles
    /\ maxThreadCount \in 1..MaxThreads
    /\ ppc = "next"
    /\ pfile = 1
    /\ wpc = [w \in Workers |-> "loop"]
    /\ witem = [w \in Workers |-> 0]
    /\ wstop = [w \in Workers |-> FALSE]
    /\ wresults = [w \in Workers |-> <<>>]
    /\ m_queue = <<>>
    /\ m_queueSize = 0
    /\ m_queueGuard = {}
    /\ waiting = {}
    /\ joining = 0
    /\ m_results = <<>>

\* for (const auto& file : fileList): read the next file, or leave the loop
\* and call processor.Wait().
PNext ==
    /\ ppc = "next"
    /\ ppc' = IF pfile <= nFiles THEN "lock" ELSE "clear"
    /\ joining' = IF pfile <= nFiles THEN joining ELSE 1
    /\ UNCHANGED <<svars, cvars, gvars, nFiles, maxThreadCount, pfile, wpc, witem, wstop, wresults,
                   m_queue, m_queueSize, m_queueGuard, waiting, m_results>>

\* std::unique_lock lockStart(queueGuard), also when woken up.
PLock ==
    /\ ppc \in {"lock", "blocked"}
    /\ Producer \notin waiting
    /\ m_queueGuard = {}
    /\ m_queueGuard' = {Producer}
    /\ ppc' = "check"
    /\ UNCHANGED <<svars, cvars, gvars, nFiles, maxThreadCount, pfile, wpc, witem, wstop, wresults,
                   m_queue, m_queueSize, waiting, joining, m_results>>

\* queueCondition.wait(lockStart, pred): go on, or release and block.
PCheck ==
    /\ ppc = "check"
    /\ m_queueGuard' = {}
    /\ IF QueueNotTooFull
       THEN ppc' = "enqueue" /\ UNCHANGED waiting
       ELSE ppc' = "blocked" /\ waiting' = waiting \cup {Producer}
    /\ UNCHANGED <<svars, cvars, gvars, nFiles, maxThreadCount, pfile, wpc, witem, wstop, wresults,
                   m_queue, m_queueSize, joining, m_results>>

\* TaskProcessor::Enqueue, the locked block: m_queue.emplace(item).
PPush ==
    /\ ppc = "enqueue"
    /\ m_queueGuard = {}
    /\ m_queue' = Append(m_queue, pfile)
    /\ ppc' = "inc"
    /\ UNCHANGED <<svars, cvars, gvars, nFiles, maxThreadCount, pfile, wpc, witem, wstop, wresults,
                   m_queueSize, m_queueGuard, waiting, joining, m_results>>

\* TaskProcessor::Enqueue: ++m_queueSize, outside the lock.
PInc ==
    /\ ppc = "inc"
    /\ m_queueSize' = m_queueSize + 1
    /\ ppc' = "notify"
    /\ UNCHANGED <<svars, cvars, gvars, nFiles, maxThreadCount, pfile, wpc, witem, wstop, wresults,
                   m_queue, m_queueGuard, waiting, joining, m_results>>

\* TaskProcessor::Enqueue: m_queueCondition.notify_all().
PNotify ==
    /\ ppc = "notify"
    /\ waiting' = NotifyAll
    /\ pfile' = pfile + 1
    /\ ppc' = "next"
    /\ UNCHANGED <<svars, cvars, gvars, nFiles, maxThreadCount, wpc, witem, wstop, wresults,
                   m_queue, m_queueSize, m_queueGuard, joining, m_results>>

\* Wait(): m_workers.clear() destroys the workers one by one; ~Worker
\* assigns m_thread = {}, which requests the stop of the thread ...
PRequestStop ==
    /\ ppc = "clear"
    /\ joining \in Workers
    /\ wstop' = [wstop EXCEPT ![joining] = TRUE]
    /\ waiting' = NotifyAll
    /\ ppc' = "join"
    /\ UNCHANGED <<svars, cvars, gvars, nFiles, maxThreadCount, pfile, wpc, witem, wresults,
                   m_queue, m_queueSize, m_queueGuard, joining, m_results>>

\* OnFinished keeping the results of the last worker only.
OnFinishedOverwrite(results) == results

\* TaskProcessor::OnFinished(results)
OnFinished(results) == m_results \o results

\* ... and joins it, then hands its results to OnFinished.
PJoin ==
    /\ ppc = "join"
    /\ wpc[joining] = "done"
    /\ m_results' = OnFinished(wresults[joining])
    /\ wresults' = [wresults EXCEPT ![joining] = <<>>]
    /\ joining' = joining + 1
    /\ ppc' = "clear"
    /\ UNCHANGED <<svars, cvars, gvars, nFiles, maxThreadCount, pfile, wpc, witem, wstop,
                   m_queue, m_queueSize, m_queueGuard, waiting>>

\* Wait(): all workers are gone; sort the results by file and return them.
PSort ==
    /\ ppc = "clear"
    /\ joining \notin Workers
    /\ m_results' = SortByFile(m_results)
    /\ ppc' = "done"
    /\ UNCHANGED <<svars, cvars, gvars, nFiles, maxThreadCount, pfile, wpc, witem, wstop, wresults,
                   m_queue, m_queueSize, m_queueGuard, waiting, joining>>

\* The loop leaving as soon as the stop is requested.
KeepsWorkingUntilStop(w) == ~wstop[w]

\* The condition of the loop of Worker::Work.
KeepsWorking(w) == ~wstop[w] \/ m_queueSize # 0

\* Worker::Work: while (!stopToken.stop_requested() || m_queueSize)
WLoop(w) ==
    /\ wpc[w] = "loop"
    /\ wpc' = [wpc EXCEPT ![w] = IF KeepsWorking(w) THEN "lock" ELSE "done"]
    /\ UNCHANGED <<svars, cvars, gvars, nFiles, maxThreadCount, ppc, pfile, witem, wstop, wresults,
                   m_queue, m_queueSize, m_queueGuard, waiting, joining, m_results>>

\* Worker::Dequeue: std::unique_lock queueLock(m_queueGuard), also when
\* woken up.
WLock(w) ==
    /\ wpc[w] \in {"lock", "blocked"}
    /\ w \notin waiting
    /\ m_queueGuard = {}
    /\ m_queueGuard' = {w}
    /\ wpc' = [wpc EXCEPT ![w] = "check"]
    /\ UNCHANGED <<svars, cvars, gvars, nFiles, maxThreadCount, ppc, pfile, witem, wstop, wresults,
                   m_queue, m_queueSize, waiting, joining, m_results>>

\* Worker::Dequeue: m_queueCondition.wait(queueLock, stopToken, pred)
WCheck(w) ==
    /\ wpc[w] = "check"
    /\ IF m_queue # <<>> \/ wstop[w]
       THEN /\ wpc' = [wpc EXCEPT ![w] = "pop"]
            /\ UNCHANGED <<m_queueGuard, waiting>>
       ELSE /\ wpc' = [wpc EXCEPT ![w] = "blocked"]
            /\ m_queueGuard' = {}
            /\ waiting' = waiting \cup {w}
    /\ UNCHANGED <<svars, cvars, gvars, nFiles, maxThreadCount, ppc, pfile, witem, wstop, wresults,
                   m_queue, m_queueSize, joining, m_results>>

\* What Dequeue takes from the queue: the front item, which it pops.
Dequeued == [item |-> Head(m_queue), queue |-> Tail(m_queue)]

\* Worker::Dequeue, after the wait: nothing to take, or pop the front item,
\* --m_queueSize, notify_all; the lock is released on return.
WPop(w) ==
    /\ wpc[w] = "pop"
    /\ m_queueGuard' = {}
    /\ IF m_queue = <<>>
       THEN /\ wpc' = [wpc EXCEPT ![w] = "loop"]
            /\ UNCHANGED <<witem, m_queue, m_queueSize, waiting>>
       ELSE /\ witem' = [witem EXCEPT ![w] = Dequeued.item]
            /\ m_queue' = Dequeued.queue
            /\ m_queueSize' = m_queueSize - 1
            /\ waiting' = NotifyAll
            /\ wpc' = [wpc EXCEPT ![w] = "work"]
    /\ UNCHANGED <<svars, cvars, gvars, nFiles, maxThreadCount, ppc, pfile, wstop, wresults, joining, m_results>>

\* Worker::Work, the body of the loop: fingerprint the file and keep the
\* bundle in m_results.
WWork(w) ==
    /\ wpc[w] = "work"
    /\ wresults' = [wresults EXCEPT ![w] = Append(@, witem[w])]
    /\ witem' = [witem EXCEPT ![w] = 0]
    /\ wpc' = [wpc EXCEPT ![w] = "loop"]
    /\ UNCHANGED <<svars, cvars, gvars, nFiles, maxThreadCount, ppc, pfile, wstop,
                   m_queue, m_queueSize, m_queueGuard, waiting, joining, m_results>>

PipelineNext ==
    \/ PNext \/ PLock \/ PCheck \/ PPush \/ PInc \/ PNotify
    \/ PRequestStop \/ PJoin \/ PSort
    \/ \E w \in Workers : WLoop(w)
    \/ \E w \in Workers : WLock(w)
    \/ \E w \in Workers : WCheck(w)
    \/ \E w \in Workers : WPop(w)
    \/ \E w \in Workers : WWork(w)

-----------------------------------------------------------------------------
(* GetPHash and Canny::Process: the perceptual hash of the images of a file *)

\* Canny::Process gives up on an image with a side under this.
MinSide == 20

Rect(top, left, bottom, right) == [top |-> top, left |-> left, bottom |-> bottom, right |-> right]

RectWidth(r) == r.right - r.left

RectHeight(r) == r.bottom - r.top

\* Bytes Util::Decode cannot decode.
Undecodable == [decodable |-> FALSE]

\* The sides of the decoded images.
Sides == {19, 20, 60}

\* What the edge detection finds in an image that is not too small: edges up
\* to the border, edges in a frame of just over half of each side, no edge.
Frames(w, h) ==
    { Rect(0, 0, h, w), Rect(0, 0, h \div 2 + 1, w \div 2 + 1), Rect(h, w, h, w) }

\* The 8x8 block of the DCT, held as four values: of a flat image, of two
\* images with detail.
Blocks == { <<0, 0, 0, 0>>, <<0, 1, 0, 1>>, <<1, 1, 1, 0>> }

\* The image files: bytes that do not decode, and decoded images with their
\* sides, the frame the edge detection finds, and the DCT block of the whole
\* image and of the image cropped to the frame.
Bodies ==
    { Undecodable } \cup
    UNION { { [decodable |-> TRUE, width |-> w, height |-> h, frame |-> f,
               dct |-> d, dctCropped |-> c] :
                f \in Frames(w, h), d \in Blocks, c \in Blocks } :
            w \in Sides, h \in Sides }

\* Canny::Process(img): Rect {} for an image with a side under MinSide,
\* else the frame of the edges.
Process(img) ==
    IF Min(img.width, img.height) < MinSide THEN Rect(0, 0, 0, 0) ELSE img.frame

\* dct.median(): the mean of the two middle values, as twice its value.
TwiceMedian(d) ==
    LET below(k) == Cardinality({ j \in 1..Len(d) : d[j] < d[k] \/ (d[j] = d[k] /\ j < k) })
        kth(n)   == d[CHOOSE k \in 1..Len(d) : below(k) = n]
    IN kth(Len(d) \div 2) + kth(Len(d) \div 2 - 1)

\* The std::accumulate over the block: one bit per value, set when the value
\* is above the median.
Accumulate(d) == { k \in 1..Len(d) : 2 * d[k] > TwiceMedian(d) }

\* GetPHash(body)
GetPHash(body) ==
    IF ~body.decodable THEN PZero
    ELSE LET cropRect == Process(body)
         IN IF /\ RectWidth(cropRect) > body.width \div 2
               /\ RectHeight(cropRect) > body.height \div 2
            THEN Accumulate(body.dctCropped)
            ELSE Accumulate(body.dct)

\* The image that follows the first one in the file.
NextBodies ==
    { Undecodable,
      [decodable |-> TRUE, width |-> 60, height |-> 60, frame |-> Rect(0, 0, 60, 60),
       dct |-> <<0, 1, 0, 1>>, dctCropped |-> <<1, 1, 1, 0>>] }

HashInit ==
    call \in { [op |-> "setHash", images |-> <<a, b>>, pHash |-> <<>>] :
                 a \in Bodies, b \in NextBodies }

\* Worker::Work, std::ranges::for_each(bookTaskItem.images, setHash): the
\* next image of the file gets its pHash.
SetHash ==
    /\ call.op = "setHash"
    /\ Len(call.pHash) < Len(call.images)
    /\ call' = [call EXCEPT !.pHash = Append(@, GetPHash(call.images[Len(@) + 1]))]
    /\ UNCHANGED <<cmp, svars, pvars, gvars>>

HashNext == SetHash

-----------------------------------------------------------------------------
(* PrepareTitle, SimplifyTitle and the split of a title into tokens *)

\* Bound on the length of a title.
MaxTitleLen == 3

\* A title is a sequence of characters.  The characters drawn: a lowercase
\* and an uppercase letter, a letter PrepareTitle replaces ("yo" stands for
\* U+0451, "ye" for U+0435), a digit, the space and a punctuation mark.
Chars == {"b", "B", "yo", "2", " ", "-"}

Titles == UNION { [1..n -> Chars] : n \in 0..MaxTitleLen }

Category(ch) ==
    IF ch \in {"b", "yo", "ye", "yi", "o", "soft", "yu"} THEN "Letter_Lowercase"
    ELSE IF ch = "B" THEN "Letter_Uppercase"
    ELSE IF ch = "2" THEN "Number_DecimalDigit"
    ELSE IF ch = " " THEN "Separator_Space"
    ELSE "Punctuation_Dash"

\* QString::toLower, character by character.
ToLower(ch) == IF ch = "B" THEN "b" ELSE ch

\* replacementChar of PrepareTitle (of its three pairs, the one whose
\* letter is drawn).
ReplacementChar(ch) == IF ch = "yo" THEN "ye" ELSE ch

\* value.replace(from, to) for the pair of replacementString: U+044B U+043E
\* ("yi", "o") becomes U+044C U+044E ("soft", "yu").
RECURSIVE ReplaceString(_)
ReplaceString(v) ==
    IF Len(v) < 2 THEN v
    ELSE IF v[1] = "yi" /\ v[2] = "o"
         THEN <<"soft", "yu">> \o ReplaceString(SubSeq(v, 3, Len(v)))
    ELSE <<v[1]>> \o ReplaceString(Tail(v))

\* PrepareTitle(value): lower case, replaced letters, a space for every
\* separator, control character and punctuation mark.
PrepareTitle(value) ==
    ReplaceString(
      [n \in 1..Len(value) |->
         LET ch == ToLower(value[n])
         IN IF ReplacementChar(ch) # ch THEN ReplacementChar(ch)
            ELSE IF Category(ch) \in {"Separator_Space", "Punctuation_Dash"} THEN " "
            ELSE ch])

\* QString::split(' '), with or without the empty parts.
RECURSIVE SplitFrom(_, _, _)
SplitFrom(v, word, skipEmptyParts) ==
    LET parts == IF word = <<>> /\ skipEmptyParts THEN <<>> ELSE <<word>>
    IN IF v = <<>> THEN parts
       ELSE IF Head(v) = " " THEN parts \o SplitFrom(Tail(v), <<>>, skipEmptyParts)
       ELSE SplitFrom(Tail(v), Append(word, Head(v)), skipEmptyParts)

Split(v, skipEmptyParts) == SplitFrom(v, <<>>, skipEmptyParts)

IsDigit(ch) == Category(ch) = "Number_DecimalDigit"

\* The loop of SimplifyTitle over the words of its local list `split`: the
\* digits of each word that has some.
RECURSIVE DigitWords(_)
DigitWords(split) ==
    IF split = <<>> THEN <<>>
    ELSE LET digitsWord == SelectSeq(Head(split), IsDigit)
         IN (IF digitsWord # <<>> THEN <<digitsWord>> ELSE <<>>) \o DigitWords(Tail(split))

KeptBySimplify(ch) ==
    ch = " " \/ Category(ch) \in {"Number_DecimalDigit", "Letter_Lowercase"}

\* SimplifyTitle(value): value loses every character that is not a space, a
\* digit or a lowercase letter and is returned; the words without their
\* digits and the digit words are put in the local list `split`, which is
\* dropped on return.
SimplifyTitle(value) ==
    LET removed == SelectSeq(value, KeptBySimplify)
        split   == [n \in 1..Len(Split(removed, FALSE)) |->
                      SelectSeq(Split(removed, FALSE)[n], LAMBDA ch : ~IsDigit(ch))]
                   \o DigitWords(Split(removed, FALSE))
    IN removed

\* UniqueFileStorage::OnBookParsed: SimplifyTitle(PrepareTitle(title)), then
\* title.split(' ', Qt::SkipEmptyParts) into the set UniqueFile::title.
TitleTokens(title) ==
    LET split == Split(SimplifyTitle(PrepareTitle(title)), TRUE)
    IN { split[n] : n \in 1..Len(split) }

TitleInit ==
    call \in { [op |-> "titles", a |-> a, b |-> b] : a \in Titles, b \in Titles }

\* The titles of two books are normalized.
NormalizeTitles ==
    /\ call.op = "titles"
    /\ call' = [op |-> "tokens", a |-> call.a, b |-> call.b,
                ta |-> TitleTokens(call.a), tb |-> TitleTokens(call.b)]
    /\ UNCHANGED <<cmp, svars, pvars, gvars>>

TitleNext == NormalizeTitles

-----------------------------------------------------------------------------
(* One call of ImageComparer::Compare on any two files *)

\* The image sets compared: each of three images is absent or present with
\* one of its perceptual hashes.
CmpImageSets ==
    { a \cup b \cup c :
        a \in { {}, {Image(1, PA)}, {Image(1, PZero)} },
        b \in { {}, {Image(2, PB)}, {Image(2, PC)}, {Image(2, PZero)} },
        c \in { {}, {Image(3, PA)}, {Image(3, PC)} } }

CmpCovers == { NoImage, Cover(1, PA), Cover(2, PB), Cover(2, PC), Cover(2, PZero) }

CmpTitles == { {"a"}, {"b"} }

CmpFiles(file) ==
    { UniqueFile(1, file, [title |-> t, cover |-> c, images |-> i]) :
        t \in CmpTitles, c \in CmpCovers, i \in CmpImageSets }

\* m_imageComparer->Compare(lhs, rhs) on the pair of files held in cmp: the
\* result, and the residual lists of the image comparison when the covers
\* did not end it.
CompareCall ==
    /\ cmp.op = "input"
    /\ \E res \in Residuals(cmp.lhs, cmp.rhs) :
         cmp' = [op |-> "Compare", lhs |-> cmp.lhs, rhs |-> cmp.rhs,
                 result |-> Classify(cmp.lhs, cmp.rhs, res),
                 res |-> IF CoverResult(cmp.lhs, cmp.rhs) = Varied
                         THEN [lp |-> <<>>, rp |-> <<>>, matched |-> <<>>]
                         ELSE res]
    /\ UNCHANGED <<call, svars, pvars, gvars>>

CompareNext == CompareCall

\* Image sets for the matching of residual images: four images, each absent
\* or present with one of its perceptual hashes; PB is within the threshold
\* of PA and of PC, PA and PC are not within it of each other.
FuzzyImageSets ==
    { a \cup b \cup c \cup d :
        a \in { {}, {Image(1, PB)} },
        b \in { {}, {Image(2, PB)}, {Image(2, PA)} },
        c \in { {}, {Image(3, PA)}, {Image(3, PC)} },
        d \in { {}, {Image(4, PC)}, {Image(4, PA)} } }

FuzzyFiles(file) ==
    { UniqueFile(1, file, [title |-> {"a"}, cover |-> NoImage, images |-> i]) :
        i \in FuzzyImageSets }

-----------------------------------------------------------------------------
(* Specifications *)

\* No call of Compare is modelled.
CompareIdle == cmp = NoCall /\ call = NoCall

\* No archive is being processed.
PipelineIdle ==
    /\ nFiles = 0
    /\ maxThreadCount = 1
    /\ ppc = "idle"
    /\ pfile = 0
    /\ wpc = <<>>
    /\ witem = <<>>
    /\ wstop = <<>>
    /\ wresults = <<>>
    /\ m_queue = <<>>
    /\ m_queueSize = 0
    /\ m_queueGuard = {}
    /\ waiting = {}
    /\ joining = 0
    /\ m_results = <<>>

\* The de-duplication index: any run of Add and Save calls.
Init == StorageInit /\ CompareIdle /\ PipelineIdle /\ GuardInit

Next == StorageNext

Spec == Init /\ [][Next]_vars

\* The index with the images of pending canonicals supplied later: any run
\* of Add, SetImages and Save calls (Save with an output file it can open).
ImagesNext ==
    \/ \E hash \in Keys : \E file \in Files(hash) : Add(hash, file)
    \/ \E hash \in Keys, fileName \in FileNames, content \in ImageContents :
         SetImages(hash, fileName, content.cover, content.images)
    \/ Save(TRUE, FALSE)

SpecImages == Init /\ [][ImagesNext]_vars

\* No call of the storage is modelled.
StorageIdle ==
    /\ m_old = [h \in Keys |-> <<>>]
    /\ m_new = [h \in Keys |-> <<>>]
    /\ m_dup = <<>>
    /\ m_conflictResolver = "order"
    /\ observed = <<>>
    /\ nAdds = 0
    /\ nSaves = 0
    /\ nSets = 0
    /\ last = NoCall

\* The pipeline over one archive: the producer and the workers, every
\* interleaving of their steps.
PipeInit == PipelineInit /\ StorageIdle /\ CompareIdle /\ GuardInit

PipeNext == PipelineNext

SpecPipe == PipeInit /\ [][PipeNext]_vars

\* The steps of the producer thread and of worker thread w.
ProducerStep ==
    PNext \/ PLock \/ PCheck \/ PPush \/ PInc \/ PNotify \/ PRequestStop \/ PJoin \/ PSort

WorkerStep(w) ==
    /\ w \in Workers
    /\ (WLoop(w) \/ WLock(w) \/ WCheck(w) \/ WPop(w) \/ WWork(w))

\* Fair scheduling: a thread that can take a step, and stays able to, takes
\* one.
PipeFairness ==
    /\ WF_vars(ProducerStep)
    /\ \A w \in 1..MaxThreads : WF_vars(WorkerStep(w))

\* The pipeline over one archive under fair scheduling.
SpecPipeFair == SpecPipe /\ PipeFairness

\* Threads calling the operations of one storage at any time.
GuardedInit == StorageIdle /\ CompareIdle /\ PipelineIdle /\ GuardInit

SpecGuard == GuardedInit /\ [][GuardNext]_vars

\* ImageComparer::Compare on files without covers, with up to four images.
FuzzyInit ==
    /\ cmp \in { [op |-> "input", lhs |-> lhs, rhs |-> rhs] :
                  lhs \in FuzzyFiles(1), rhs \in FuzzyFiles(2) }
    /\ call = NoCall
    /\ StorageIdle
    /\ PipelineIdle
    /\ GuardInit

SpecFuzzy == FuzzyInit /\ [][CompareNext]_vars

\* The normalization of the titles of two books.
TitlesInit == TitleInit /\ cmp = NoCall /\ StorageIdle /\ PipelineIdle /\ GuardInit

SpecTitle == TitlesInit /\ [][TitleNext]_vars

\* The hashing of the images of one file by a worker.
HashingInit == HashInit /\ cmp = NoCall /\ StorageIdle /\ PipelineIdle /\ GuardInit

SpecHash == HashingInit /\ [][HashNext]_vars

\* ImageComparer::Compare as a function: one call on each pair of files.
CompareInit ==
    /\ cmp \in { [op |-> "input", lhs |-> lhs, rhs |-> rhs] :
                  lhs \in CmpFiles(1), rhs \in CmpFiles(2) }
    /\ call = NoCall
    /\ StorageIdle
    /\ PipelineIdle
    /\ GuardInit

SpecCompare == CompareInit /\ [][CompareNext]_vars

-----------------------------------------------------------------------------
(* Properties of ImageComparer::Compare (SpecCompare) *)

\* A call of Compare has returned.
Compared == cmp.op = "Compare"

ImageHashes(file) == { i.hash : i \in file.images }

\* The images of `file` whose cryptographic hash is not on the other side.
Unpaired(file, other) == { i \in file.images : i.hash \notin ImageHashes(other) }

\* C2: with equal (or both absent) covers, once the images with the same
\* cryptoHash are removed from both sides, an empty lhs residual with a
\* non-empty rhs residual gives Inner and the reverse gives Outer.  (Stated
\* for overlapping titles, where the title check cannot change the result.)
C2_ResidualDecides ==
    (/\ Compared
     /\ cmp.lhs.cover.hash = cmp.rhs.cover.hash
     /\ Intersect(cmp.lhs.title, cmp.rhs.title))
    => /\ (Unpaired(cmp.lhs, cmp.rhs) = {} /\ Unpaired(cmp.rhs, cmp.lhs) # {})
            => cmp.result = Inner
       /\ (Unpaired(cmp.rhs, cmp.lhs) = {} /\ Unpaired(cmp.lhs, cmp.rhs) # {})
            => cmp.result = Outer

\* C3: one image on each side, different cryptoHash, both perceptual hashes
\* non-zero: at distance exactly the threshold neither image is left
\* unmatched, at threshold + 1 both are.  The same boundary for two covers
\* that differ by hash: at the threshold they do not make the result Varied,
\* at threshold + 1 they do.
C3_ThresholdBoundary ==
    Compared =>
      /\ \A x \in cmp.lhs.images : \A y \in cmp.rhs.images :
           (/\ cmp.lhs.images = {x}
            /\ cmp.rhs.images = {y}
            /\ x.hash # y.hash
            /\ x.pHash # PZero
            /\ y.pHash # PZero
            /\ CoverResult(cmp.lhs, cmp.rhs) # Varied)
           => /\ PopCountXor(x.pHash, y.pHash) = m_threshold
                   => (cmp.res.lp = <<>> /\ cmp.res.rp = <<>>)
              /\ PopCountXor(x.pHash, y.pHash) = m_threshold + 1
                   => (cmp.res.lp = <<x.pHash>> /\ cmp.res.rp = <<y.pHash>>)
      /\ (/\ cmp.lhs.cover.hash # 0
          /\ cmp.rhs.cover.hash # 0
          /\ cmp.lhs.cover.hash # cmp.rhs.cover.hash
          /\ cmp.lhs.cover.pHash # PZero
          /\ cmp.rhs.cover.pHash # PZero)
         => /\ PopCountXor(cmp.lhs.cover.pHash, cmp.rhs.cover.pHash) = m_threshold + 1
                 => cmp.result = Varied
            /\ (/\ PopCountXor(cmp.lhs.cover.pHash, cmp.rhs.cover.pHash) = m_threshold
                /\ cmp.lhs.images = {}
                /\ cmp.rhs.images = {})
                 => cmp.result = Equal

\* C4: a perceptual hash of zero is never one of a pair matched by Hamming
\* distance, on either side of Compare.
C4_ZeroNeverMatched ==
    Compared =>
      \A n \in 1..Len(cmp.res.matched) :
          cmp.res.matched[n].l # PZero /\ cmp.res.matched[n].r # PZero

\* The case of C5: no image on either side, no title token in common.
BareCollision ==
    /\ Compared
    /\ cmp.lhs.hashText = cmp.rhs.hashText
    /\ cmp.lhs.images = {}
    /\ cmp.rhs.images = {}
    /\ ~Intersect(cmp.lhs.title, cmp.rhs.title)

\* C5 as stated: two entries without images and with disjoint titles always
\* compare Varied.
C5_BareCollisionVaried == BareCollision => cmp.result = Varied

\* C5, amended: two entries without images and with disjoint titles, at
\* least one of them without a cover, compare Varied.
C5_CoverlessCollisionVaried ==
    (BareCollision /\ (cmp.lhs.cover.hash = 0 \/ cmp.rhs.cover.hash = 0))
    => cmp.result = Varied

\* Reached: a bare collision of a file with a cover and a file without one
\* has been compared, and the result is Varied.
C5_Witness ==
    /\ BareCollision
    /\ cmp.lhs.cover.hash # 0
    /\ cmp.rhs.cover.hash = 0
    /\ cmp.result = Varied

-----------------------------------------------------------------------------
(* Properties of UniqueFileStorage::Add (Spec) *)

\* Compare(lhs, rhs) returns c, whatever the iteration order of rpHashes.
Classified(lhs, rhs, c) == Compare(lhs, rhs) = {c}

StrictSuperset(B, A) ==
    ImageHashes(A) \subseteq ImageHashes(B) /\ ImageHashes(A) # ImageHashes(B)

\* C1: A and B in one bucket, the images of B a strict superset of those of
\* A, the persisted store empty, any orders: after Add(A), Add(B) and after
\* Add(B), Add(A) the bucket holds B as its canonical entry with A in B's
\* duplicate list.  X is the entry added first, Y the one added second.
\* (Stated for the default resolver and for two files with the same cover
\* and a common title token.)
C1_SupersetWinsEitherOrder ==
    [][ \A key \in Keys :
          (/\ last'.op = "Add"
           /\ last'.hash = key
           /\ m_conflictResolver = "order"
           /\ nAdds = 1
           /\ m_old[key] = <<>>
           /\ m_dup = <<>>
           /\ Len(m_new[key]) = 1
           /\ m_new[key][1].second = <<>>)
          => LET X == m_new[key][1].first
                 Y == Normalize(last'.file)
                 SameBook == /\ X.uid # Y.uid
                             /\ X.cover.hash = Y.cover.hash
                             /\ Intersect(X.title, Y.title)
             IN /\ (SameBook /\ StrictSuperset(Y, X))
                     => m_new'[key] = << [first |-> Y, second |-> <<ClearImages(X)>>] >>
                /\ (SameBook /\ StrictSuperset(X, Y))
                     => m_new'[key] = << [first |-> X, second |-> <<ClearImages(Y)>>] >>
      ]_vars

\* The persisted entry p is the entry `file` as Save has stored it.
Identical(p, file) ==
    /\ p.uid = file.uid
    /\ p.title = Normalize(file).title
    /\ p.cover.hash = file.cover.hash
    /\ p.cover.pHash = file.cover.pHash
    /\ ImageHashes(p) = ImageHashes(file)

RECURSIVE CountIn(_)
CountIn(keys) ==
    IF keys = {} THEN 0
    ELSE LET k == CHOOSE x \in keys : TRUE
         IN Len(m_old[k]) + Len(m_new[k]) + CountIn(keys \ {k})

\* The number of canonical entries: persisted entries and pending canonicals.
CanonicalCount == CountIn(Keys)

\* The entry tells something about the book besides its content hash.
HasEvidence(file) ==
    file.images # {} \/ file.cover.hash # 0 \/ Normalize(file).title # {}

\* C6 as stated: adding an entry identical to a persisted one is Equal to
\* it, returns None and leaves the number of canonical entries unchanged.
C6_ReAddIsIdempotent ==
    [][ \A key \in Keys : \A i \in 1..Len(m_old[key]) :
          (/\ last'.op = "Add"
           /\ last'.hash = key
           /\ Identical(m_old[key][i], last'.file))
          => /\ Classified(m_old[key][i], Normalize(last'.file), Equal)
             /\ last'.ret = None
             /\ CanonicalCount' = CanonicalCount
      ]_vars

\* C6, amended: the same for an entry that has a cover, an image or a title
\* token other than the filler.
C6_ReAddWithEvidenceIsIdempotent ==
    [][ \A key \in Keys : \A i \in 1..Len(m_old[key]) :
          (/\ last'.op = "Add"
           /\ last'.hash = key
           /\ Identical(m_old[key][i], last'.file)
           /\ HasEvidence(last'.file))
          => /\ Classified(m_old[key][i], Normalize(last'.file), Equal)
             /\ last'.ret = None
             /\ CanonicalCount' = CanonicalCount
      ]_vars

\* Reached: an entry with evidence has been added, saved, and added again
\* twice; both repeats were rejected as duplicates of the persisted entry.
C6_Witness ==
    /\ last.op = "Add"
    /\ last.ret = None
    /\ HasEvidence(last.file)
    /\ nAdds = 3
    /\ \E i \in 1..Len(m_old[last.hash]) : Identical(m_old[last.hash][i], last.file)
    /\ CanonicalCount = 1
    /\ Len(m_dup) = 2
    /\ \A n \in 1..2 : m_dup[n].file.uid = last.file.uid /\ m_dup[n].origin.uid = last.file.uid

\* The persisted loop goes on after `old`: Varied, or the candidate
\* supersedes it.
Superseded(old, file) ==
    \/ Classified(old, file, Inner)
    \/ (Classified(old, file, Equal) /\ file.hash # old.hash /\ Resolve(file, old))

PassedOver(old, file) == Classified(old, file, Varied) \/ Superseded(old, file)

\* Add has rejected `file` as a duplicate of the persisted entry `old`.
RejectedFor(file, old) ==
    /\ last'.ret = None
    /\ m_dup' = Append(m_dup, [file |-> ClearImages(file), origin |-> old])
    /\ m_new' = m_new
    /\ m_old' = m_old

\* C8 as stated: a persisted entry (the first of the bucket that is not
\* Varied) classified Inner, or Equal with the resolver for the persisted
\* entry, takes the candidate as its duplicate.
C8_InnerPersistedRejectsCandidate ==
    [][ \A key \in Keys : \A i \in 1..Len(m_old[key]) :
          LET old  == m_old[key][i]
              file == Normalize(last'.file)
          IN (/\ last'.op = "Add"
              /\ last'.hash = key
              /\ \A j \in 1..(i - 1) : Classified(m_old[key][j], file, Varied)
              /\ \/ Classified(old, file, Inner)
                 \/ (Classified(old, file, Equal) /\ Resolve(old, file)))
             => RejectedFor(file, old)
      ]_vars

\* C8, amended: a persisted entry the scan reaches for which
\* Compare(persisted, candidate) is Outer, or Equal unless the file hashes
\* differ and the resolver is for the candidate, takes the candidate as its
\* duplicate: images stripped, (candidate, persisted) appended to rejected,
\* pending unchanged, None returned.
C8_OuterPersistedRejectsCandidate ==
    [][ \A key \in Keys : \A i \in 1..Len(m_old[key]) :
          LET old  == m_old[key][i]
              file == Normalize(last'.file)
          IN (/\ last'.op = "Add"
              /\ last'.hash = key
              /\ \A j \in 1..(i - 1) : PassedOver(m_old[key][j], file)
              /\ \/ Classified(old, file, Outer)
                 \/ /\ Classified(old, file, Equal)
                    /\ ~(file.hash # old.hash /\ Resolve(file, old)))
             => RejectedFor(file, old)
      ]_vars

\* Reached: Add has returned None for a candidate with images that a
\* persisted entry classified Outer, and (candidate, persisted) is the last
\* pair of rejected, the candidate without its image bytes.
C8_Witness ==
    /\ last.op = "Add"
    /\ last.ret = None
    /\ last.file.images # {}
    /\ m_dup # <<>>
    /\ m_dup[Len(m_dup)].file = ClearImages(Normalize(last.file))
    /\ \E i \in 1..Len(m_old[last.hash]) :
         /\ m_dup[Len(m_dup)].origin = m_old[last.hash][i]
         /\ Classified(m_old[last.hash][i], Normalize(last.file), Outer)

\* The candidate is a canonical entry of pending without duplicates.
FreshCanonical(key, file) ==
    /\ last'.ret # None
    /\ last'.ret.at \in 1..Len(m_new'[key])
    /\ m_new'[key][last'.ret.at] = [first |-> file, second |-> <<>>]
    /\ Len(m_new'[key]) = Len(m_new[key]) + 1

\* The pairs Add has appended to rejected.
NewlyRejected == { m_dup'[n] : n \in (Len(m_dup) + 1)..Len(m_dup') }

\* C9 as stated: a persisted entry (the first of the bucket that is not
\* Varied) classified Outer, or Equal with the resolver for the candidate,
\* is recorded with the candidate in rejected, the persisted bucket is
\* unchanged and the candidate is a fresh canonical of pending.
C9_OuterPersistedIsRecorded ==
    [][ \A key \in Keys : \A i \in 1..Len(m_old[key]) :
          LET old  == m_old[key][i]
              file == Normalize(last'.file)
          IN (/\ last'.op = "Add"
              /\ last'.hash = key
              /\ \A j \in 1..(i - 1) : Classified(m_old[key][j], file, Varied)
              /\ \/ Classified(old, file, Outer)
                 \/ (Classified(old, file, Equal) /\ Resolve(file, old)))
             => /\ \E d \in NewlyRejected : d.file.uid = file.uid /\ d.origin = old
                /\ m_old' = m_old
                /\ FreshCanonical(key, file)
      ]_vars

\* C9, amended: a persisted entry the scan reaches for which
\* Compare(persisted, candidate) is Inner, or Equal with different file
\* hashes and the resolver for the candidate, is passed over: no pair with
\* it is recorded in rejected, the persisted bucket is unchanged and the
\* scan goes on; when every other persisted entry is passed over too,
\* rejected is unchanged, and when moreover every pending canonical is
\* Varied the candidate is a fresh canonical of pending.
C9_InnerPersistedIsPassedOver ==
    [][ \A key \in Keys : \A i \in 1..Len(m_old[key]) :
          LET old  == m_old[key][i]
              file == Normalize(last'.file)
          IN (/\ last'.op = "Add"
              /\ last'.hash = key
              /\ \A j \in 1..(i - 1) : PassedOver(m_old[key][j], file)
              /\ Superseded(old, file))
             => /\ \A d \in NewlyRejected : d.origin # old
                /\ m_old' = m_old
                /\ (\A j \in 1..Len(m_old[key]) : PassedOver(m_old[key][j], file))
                     => /\ m_dup' = m_dup
                        /\ (\A n \in 1..Len(m_new[key]) :
                              Classified(m_new[key][n].first, file, Varied))
                             => FreshCanonical(key, file)
      ]_vars

\* Reached: a candidate that a persisted entry classified Inner has been
\* added; nothing is in rejected and the candidate is the one canonical of
\* pending, the persisted entry still in its bucket.
C9_Witness ==
    /\ last.op = "Add"
    /\ last.ret # None
    /\ m_dup = <<>>
    /\ m_new[last.hash] = << [first |-> Normalize(last.file), second |-> <<>>] >>
    /\ \E i \in 1..Len(m_old[last.hash]) :
         Classified(m_old[last.hash][i], Normalize(last.file), Inner)

\* C10: a pending canonical the scan reaches that is classified Outer, or
\* Equal with the resolver for the canonical, or Equal with a tie of order
\* under the default resolver, keeps its place and takes the candidate,
\* stripped of its images, at the end of its duplicate list; Add returns
\* None.  On Equal the candidate replaces the canonical only when the
\* resolver is for it or its order is greater; with the default resolver,
\* only when its order is greater.
C10_PendingCanonicalKeepsPlace ==
    [][ \A key \in Keys : \A i \in 1..Len(m_new[key]) :
          LET first == m_new[key][i].first
              file  == Normalize(last'.file)
          IN (/\ last'.op = "Add"
              /\ last'.hash = key
              /\ \A j \in 1..Len(m_old[key]) : PassedOver(m_old[key][j], file)
              /\ \A j \in 1..(i - 1) : Classified(m_new[key][j].first, file, Varied))
             => /\ (\/ Classified(first, file, Outer)
                    \/ /\ Classified(first, file, Equal)
                       /\ \/ Resolve(first, file)
                          \/ (m_conflictResolver = "order" /\ first.order = file.order))
                   => /\ last'.ret = None
                      /\ m_new' = [m_new EXCEPT ![key][i].second = Append(@, ClearImages(file))]
                      /\ m_old' = m_old
                      /\ m_dup' = m_dup
                /\ (Classified(first, file, Equal) /\ last'.ret # None)
                   => /\ Resolve(file, first) \/ file.order > first.order
                      /\ m_conflictResolver = "order" => file.order > first.order
      ]_vars

\* Reached: under the default resolver a candidate Equal to the pending
\* canonical of another file with the same order has been added; it is the
\* one duplicate of that canonical and Add returned None.
C10_Witness ==
    /\ last.op = "Add"
    /\ last.ret = None
    /\ m_conflictResolver = "order"
    /\ m_old[last.hash] = <<>>
    /\ Len(m_new[last.hash]) = 1
    /\ m_new[last.hash][1].second = << ClearImages(Normalize(last.file)) >>
    /\ m_new[last.hash][1].first.uid # last.file.uid
    /\ m_new[last.hash][1].first.order = last.file.order
    /\ Classified(m_new[last.hash][1].first, Normalize(last.file), Equal)

\* The existing canonical wins an Equal: the resolver is for it, or the
\* resolver is for neither and its order is not below the candidate's.
ExistingWins(first, file) ==
    \/ Resolve(first, file)
    \/ (~Resolve(file, first) /\ first.order >= file.order)

\* C11: when the first pending canonical of the bucket that is not Varied is
\* neither Outer nor an Equal the existing entry wins, the canonical is
\* stripped and appended to the duplicate list of its slot, the candidate
\* takes the slot with every duplicate already there, and Add returns the
\* candidate's place.
C11_CandidateTakesSlot ==
    [][ \A key \in Keys : \A i \in 1..Len(m_new[key]) :
          LET first == m_new[key][i].first
              file  == Normalize(last'.file)
          IN (/\ last'.op = "Add"
              /\ last'.hash = key
              /\ \A j \in 1..Len(m_old[key]) : PassedOver(m_old[key][j], file)
              /\ \A j \in 1..(i - 1) : Classified(m_new[key][j].first, file, Varied)
              /\ \/ Classified(first, file, Inner)
                 \/ (Classified(first, file, Equal) /\ ~ExistingWins(first, file)))
             => /\ last'.ret = [hash |-> key, at |-> i]
                /\ Len(m_new'[key]) = Len(m_new[key])
                /\ \A j \in 1..Len(m_new[key]) : j # i => m_new'[key][j] = m_new[key][j]
                /\ m_new'[key][i].first = file
                /\ m_new'[key][i].second =
                     m_new[key][i].second \o << ClearImages(first) >>
                /\ m_old' = m_old
                /\ m_dup' = m_dup
      ]_vars

\* Reached: a candidate has replaced a pending canonical that already had a
\* duplicate; the slot holds the candidate, the old duplicate and then the
\* demoted canonical.
C11_Witness ==
    /\ last.op = "Add"
    /\ last.ret # None
    /\ Len(m_new[last.hash]) = 1
    /\ m_new[last.hash][1].first = Normalize(last.file)
    /\ Len(m_new[last.hash][1].second) = 2
    /\ m_new[last.hash][1].second[1].uid # m_new[last.hash][1].second[2].uid
    /\ m_new[last.hash][1].second[2].uid # last.file.uid

RECURSIVE Flatten(_)
Flatten(ss) == IF ss = <<>> THEN <<>> ELSE Head(ss) \o Flatten(Tail(ss))

RECURSIVE HeldIn(_)
HeldIn(keys) ==
    IF keys = {} THEN <<>>
    ELSE LET k == CHOOSE x \in keys : TRUE
         IN Flatten([n \in 1..Len(m_new[k]) |->
                       << ClearImages(m_new[k][n].first) >> \o m_new[k][n].second])
            \o HeldIn(keys \ {k})

\* Every entry the storage holds outside persisted, stripped of its bytes:
\* the pending canonicals, their duplicate lists, the rejected files.
Held == HeldIn(Keys) \o [n \in 1..Len(m_dup) |-> m_dup[n].file]

Occurrences(seq, e) == Cardinality({ n \in 1..Len(seq) : seq[n] = e })

IsPrefix(a, b) == Len(a) <= Len(b) /\ \A n \in 1..Len(a) : a[n] = b[n]

\* C12: every Add adds the candidate, once, to what is held in pending and
\* rejected and removes nothing, so before the first Save every entry
\* passed to Add is held exactly once; a slot keeps its duplicates, and a
\* canonical that is replaced is in the duplicate list of the slot that the
\* candidate now holds.
C12_NoEntryLost ==
    [][ last'.op = "Add" =>
          LET key  == last'.hash
              file == ClearImages(Normalize(last'.file))
          IN /\ Len(Held') = Len(Held) + 1
             /\ \A n \in 1..Len(Held') :
                  Occurrences(Held', Held'[n]) =
                    Occurrences(Held, Held'[n]) + (IF Held'[n] = file THEN 1 ELSE 0)
             /\ Occurrences(Held', file) = Occurrences(Held, file) + 1
             /\ nSaves' = 0 => Len(Held') = nAdds'
             /\ \A i \in 1..Len(m_new[key]) : \E j \in 1..Len(m_new'[key]) :
                  /\ IsPrefix(m_new[key][i].second, m_new'[key][j].second)
                  /\ \/ m_new'[key][j].first = m_new[key][i].first
                     \/ /\ ClearImages(m_new'[key][j].first) = file
                        /\ \E n \in 1..Len(m_new'[key][j].second) :
                             m_new'[key][j].second[n] = ClearImages(m_new[key][i].first)
      ]_vars

\* Reached: three entries were added before any Save; the third replaced
\* the canonical, which is in the duplicate list of the slot with the
\* duplicate recorded before.
C12_Witness ==
    /\ last.op = "Add"
    /\ nAdds = 3
    /\ nSaves = 0
    /\ Len(Held) = 3
    /\ Len(m_new[last.hash]) = 1
    /\ Len(m_new[last.hash][1].second) = 2
    /\ last.ret # None

-----------------------------------------------------------------------------
(* Properties of UniqueFileStorage::Save (Spec) *)

SameBag(a, b) ==
    /\ Len(a) = Len(b)
    /\ \A n \in 1..Len(a) : Occurrences(a, a[n]) = Occurrences(b, a[n])

PendingIsEmpty == \A key \in Keys : m_new[key] = <<>>

\* Save has work to do: pending or rejected holds an entry.
SaveHasWork == ~(PendingIsEmpty /\ m_dup = <<>>)

\* Every bucket of persisted has got the pending canonicals of its key,
\* without their bytes, and has kept what it had.
PersistedTakesPending ==
    \A key \in Keys :
        SameBag(m_old'[key],
                m_old[key] \o [n \in 1..Len(m_new[key]) |->
                                 Saved(ClearImages(m_new[key][n].first))])

\* The uid and the origin of each record written.
Links(written) ==
    [n \in 1..Len(written) |->
       [uid    |-> [folder |-> written[n].folder, file |-> written[n].file],
        origin |-> written[n].duplicates]]

\* The records Save owes for the slots of the keys: one per canonical,
\* without origin, and one per duplicate with the uid of the canonical.
RECURSIVE SlotLinks(_)
SlotLinks(keys) ==
    IF keys = {} THEN <<>>
    ELSE LET k == CHOOSE x \in keys : TRUE
         IN Flatten([n \in 1..Len(m_new[k]) |->
                       << [uid |-> m_new[k][n].first.uid, origin |-> NoUid] >>
                       \o [d \in 1..Len(m_new[k][n].second) |->
                             [uid    |-> m_new[k][n].second[d].uid,
                              origin |-> m_new[k][n].first.uid]]])
            \o SlotLinks(keys \ {k})

\* ... and one per rejected entry with the uid of the persisted entry.
RejectedLinks ==
    [n \in 1..Len(m_dup) |-> [uid |-> m_dup[n].file.uid, origin |-> m_dup[n].origin.uid]]

\* C13: Save moves every pending canonical into persisted under its key,
\* writes one record per canonical and one per duplicate with the uid of
\* its canonical (of the persisted entry, for a rejected one) as origin, and
\* leaves pending and rejected empty; a Save with nothing pending or
\* rejected, as is a second Save in a row, changes nothing and writes
\* nothing.
C13_SaveMovesAndWrites ==
    [][ last'.op = "Save" =>
          /\ SaveHasWork =>
               /\ PersistedTakesPending
               /\ \A key \in Keys : m_new'[key] = <<>>
               /\ m_dup' = <<>>
               /\ last'.opened =>
                    SameBag(Links(last'.written), SlotLinks(Keys) \o RejectedLinks)
          /\ ~SaveHasWork =>
               /\ UNCHANGED <<m_old, m_new, m_dup>>
               /\ last'.written = <<>>
          /\ last.op = "Save" =>
               /\ UNCHANGED <<m_old, m_new, m_dup>>
               /\ last'.written = <<>>
      ]_vars

\* Reached: a Save has written the record of a canonical and the records of
\* its two duplicates, both with the canonical's uid as origin, and the
\* canonical is the one persisted entry.
C13_Witness ==
    /\ last.op = "Save"
    /\ last.done
    /\ last.opened
    /\ Len(last.written) = 3
    /\ PendingIsEmpty
    /\ m_dup = <<>>
    /\ \E key \in Keys :
         /\ Len(m_old[key]) = 1
         /\ \E c \in 1..3 :
              /\ last.written[c].file = m_old[key][1].uid.file
              /\ last.written[c].duplicates = NoUid
              /\ \A d \in 1..3 : d # c => last.written[d].duplicates = m_old[key][1].uid

\* What the round trip is to keep of an entry: uid, content hash, section
\* hashes, image hashes and the uid of its origin (NoUid for a canonical).
Summary(file, origin) ==
    [uid      |-> file.uid,
     id       |-> file.hashText,
     sections |-> file.hashSections,
     images   |-> ImageHashes(file),
     origin   |-> origin]

\* The entries Save serializes: pending canonicals and their duplicates,
\* and the rejected.
RECURSIVE PendingSummaries(_)
PendingSummaries(keys) ==
    IF keys = {} THEN <<>>
    ELSE LET k == CHOOSE x \in keys : TRUE
         IN Flatten([n \in 1..Len(m_new[k]) |->
                       << Summary(m_new[k][n].first, NoUid) >>
                       \o [d \in 1..Len(m_new[k][n].second) |->
                             Summary(m_new[k][n].second[d], m_new[k][n].first.uid)]])
            \o PendingSummaries(keys \ {k})

RejectedSummaries ==
    [n \in 1..Len(m_dup) |-> Summary(m_dup[n].file, m_dup[n].origin.uid)]

\* What HashParser reads back from the records written.
Reparsed(written) ==
    [n \in 1..Len(written) |->
       LET p == HashParse(written[n])
       IN [uid      |-> [folder |-> p.folder, file |-> p.file],
           id       |-> p.id,
           sections |-> p.section,
           images   |-> { i.hash : i \in p.images },
           origin   |-> [folder |-> p.originFolder, file |-> p.originFile]]]

\* The persisted entries a storage constructed over the records holds.
RECURSIVE LoadedIn(_, _)
LoadedIn(keys, written) ==
    IF keys = {} THEN <<>>
    ELSE LET k == CHOOSE x \in keys : TRUE
         IN Load([h \in Keys |-> <<>>], written)[k] \o LoadedIn(keys \ {k}, written)

\* C18: the records a Save writes, parsed again, give the entries that were
\* serialized, each with its uid, content hash, section hashes, image hashes
\* and origin, and a storage loading them gets as persisted entries the
\* canonicals only.
C18_RoundTripKeepsEntries ==
    [][ (last'.op = "Save" /\ last'.opened) =>
          /\ SameBag(Reparsed(last'.written),
                     PendingSummaries(Keys) \o RejectedSummaries)
          /\ SameBag([n \in 1..Len(LoadedIn(Keys, last'.written)) |->
                        LoadedIn(Keys, last'.written)[n].uid],
                     Flatten([n \in 1..Len(last'.written) |->
                        IF last'.written[n].duplicates = NoUid
                        THEN << [folder |-> last'.written[n].folder,
                                 file   |-> last'.written[n].file] >>
                        ELSE <<>>]))
      ]_vars

\* C20: a Save whose output file cannot be opened ends as a Save that
\* opened it does: the pending canonicals are in persisted, pending and
\* rejected are empty, the same files are renamed; no record is written.
C20_SaveWithoutFileCompletes ==
    [][ (last'.op = "Save" /\ last'.done /\ ~last'.opened) =>
          /\ PersistedTakesPending
          /\ \A key \in Keys : m_new'[key] = <<>>
          /\ m_dup' = <<>>
          /\ last'.written = <<>>
          /\ \E moveDuplicates \in BOOLEAN :
               \E ok \in SaveOutcomes(TRUE, moveDuplicates) :
                  /\ ok.written # <<>>
                  /\ m_old' = ok.old
                  /\ last'.renamed = ok.renamed
      ]_vars

\* Reached: a Save that could not open its file has persisted a canonical
\* and renamed its duplicate, and has written nothing.
C20_Witness ==
    /\ last.op = "Save"
    /\ last.done
    /\ ~last.opened
    /\ last.written = <<>>
    /\ last.renamed # <<>>
    /\ PendingIsEmpty
    /\ m_dup = <<>>
    /\ \E key \in Keys : m_old[key] # <<>>

-----------------------------------------------------------------------------
(* Properties of the index with SetImages (SpecImages) *)

\* The entry carries no bytes: no cover body, and of each image the
\* cryptographic hash alone.
Stripped(e) ==
    /\ e.cover.body = 0
    /\ \A i \in e.images : i.body = 0 /\ i.fileName = "" /\ i.pHash = PZero

\* C14: every entry in the duplicate list of a pending canonical or in
\* rejected is stripped, in every state from the one that records it.
C14_DuplicatesAreStripped ==
    /\ \A key \in Keys : \A n \in 1..Len(m_new[key]) :
         \A d \in 1..Len(m_new[key][n].second) : Stripped(m_new[key][n].second[d])
    /\ \A n \in 1..Len(m_dup) : Stripped(m_dup[n].file)

\* Reached: a canonical that had got two images by SetImages has been
\* replaced, and is in the duplicate list with the two hashes and no bytes,
\* while the new canonical has its bytes.
C14_Witness ==
    /\ nSets = 1
    /\ last.op = "Add"
    /\ last.ret # None
    /\ \E key \in Keys : \E n \in 1..Len(m_new[key]) :
         /\ m_new[key][n].first.images = {I1, I2}
         /\ \E d \in 1..Len(m_new[key][n].second) :
              /\ ImageHashes(m_new[key][n].second[d]) = {1, 2}
              /\ Stripped(m_new[key][n].second[d])

\* The pending canonicals of bucket `hash` with the file name.
Matching(hash, fileName) ==
    { n \in 1..Len(m_new[hash]) : m_new[hash][n].first.uid.file = fileName }

\* C22: SetImages leaves persisted and rejected as they are; when a pending
\* canonical of the bucket has the file name, one such canonical gets the
\* cover and the images given, and every other element of pending, and the
\* duplicate list of that one, stay as they are; when none has it, pending
\* stays as it is.
C22_SetImagesTouchesOneCanonical ==
    [][ last'.op = "SetImages" =>
          LET hash  == last'.hash
              match == Matching(hash, last'.fileName)
          IN /\ UNCHANGED <<m_old, m_dup>>
             /\ match = {} => m_new' = m_new
             /\ match # {} =>
                  \E n \in match :
                     m_new' = [m_new EXCEPT ![hash][n].first =
                                 [m_new[hash][n].first EXCEPT !.cover = last'.cover,
                                                              !.images = last'.images]]
      ]_vars

\* Reached: SetImages has given two images to a pending canonical that has
\* a duplicate, next to another canonical of the bucket.
C22_Witness ==
    /\ last.op = "SetImages"
    /\ last.images = {I1, I2}
    /\ \E n \in Matching(last.hash, last.fileName) :
         /\ m_new[last.hash][n].first.images = {I1, I2}
         /\ m_new[last.hash][n].first.cover = last.cover
         /\ m_new[last.hash][n].second # <<>>
    /\ Len(m_new[last.hash]) = 2

-----------------------------------------------------------------------------
(* Properties of the flihasher pipeline (SpecPipe) *)

\* C7: the list TaskProcessor::Wait returns holds one bundle for each of the
\* nFiles input files and nothing else, whatever the pool size and the
\* interleaving.
C7_EachFileOnce == ppc = "done" => m_results = [n \in 1..nFiles |-> n]

\* Reached: Wait has returned the bundles of three files handled by a pool
\* of two workers.
C7_Witness ==
    /\ ppc = "done"
    /\ nFiles = 3
    /\ PoolSize = 2
    /\ m_results = <<1, 2, 3>>

\* C15: the queue never holds more payloads than twice the number of
\* workers, and a payload is put in the queue only by the producer after it
\* has found, holding the queue mutex, the size below the bound; when it
\* finds the size at the bound it waits.
C15_QueueIsBounded ==
    /\ [](Len(m_queue) <= 2 * PoolSize)
    /\ [][ /\ Len(m_queue') > Len(m_queue) =>
                ppc = "enqueue" /\ Len(m_queue) < 2 * PoolSize
           /\ (ppc = "check" /\ ppc' = "enqueue") =>
                m_queueGuard = {Producer} /\ Len(m_queue) < 2 * PoolSize
           /\ (ppc = "check" /\ ppc' # "check" /\ Len(m_queue) >= 2 * PoolSize) =>
                ppc' = "blocked" /\ Producer \in waiting' ]_vars

\* Reached: the queue holds twice the number of workers and the producer is
\* waiting with the next payload.
C15_Witness ==
    /\ PoolSize >= 1
    /\ Len(m_queue) = 2 * PoolSize
    /\ ppc = "blocked"
    /\ Producer \in waiting
    /\ pfile <= nFiles

\* Wait has returned, every worker has left its loop, nothing is queued and
\* no worker holds a payload.
Terminated ==
    /\ ppc = "done"
    /\ \A w \in Workers : wpc[w] = "done" /\ witem[w] = 0
    /\ m_queue = <<>>

\* C16: under fair scheduling the run of an archive terminates, every
\* payload having been processed; a worker leaves its loop only after its
\* stop is requested, with nothing queued and no payload in its hands.
C16_RunTerminates ==
    /\ <>Terminated
    /\ [](Terminated => Len(m_results) = nFiles)
    /\ [][ \A w \in Workers :
             (wpc[w] # "done" /\ wpc'[w] = "done") =>
                wstop[w] /\ m_queue = <<>> /\ witem[w] = 0 ]_vars

\* Reached: the stop of the first worker is requested while it is
\* processing a payload and another payload is still queued.
C16_Witness ==
    /\ ppc = "join"
    /\ joining = 1
    /\ wstop[1]
    /\ wpc[1] = "work"
    /\ m_queue # <<>>

IsSortedByFile(s) == \A a, b \in 1..Len(s) : a < b => s[a] < s[b]

\* What is handed over for an archive of n files, a function of the archive
\* alone.
HandedOver(n) == [k \in 1..n |-> k]

\* C17: the list handed over after the join is sorted by file and is fixed
\* by the files of the archive, whatever the pool size and the interleaving.
C17_HandoverIsSortedAndFixed ==
    ppc = "done" => IsSortedByFile(m_results) /\ m_results = HandedOver(nFiles)

\* Reached: the sorted list of three files is handed over by a pool of two
\* workers, whose own lists cannot both have been in file order.
C17_Witness ==
    /\ ppc = "done"
    /\ nFiles = 3
    /\ maxThreadCount = 2
    /\ IsSortedByFile(m_results)
    /\ Len(m_results) = 3

-----------------------------------------------------------------------------
(* Properties of the locking of the storage (SpecGuard) *)

\* Thread t is at work on the buckets.
OnBuckets(t) == callers[t].pc = "buckets"

\* C19: no two threads are at work on the buckets at the same time,
\* whichever of Add, SetImages, GetImages and Save they called.
C19_OneThreadOnBuckets ==
    \A t, u \in Callers : (OnBuckets(t) /\ OnBuckets(u)) => t = u

-----------------------------------------------------------------------------
(* Properties of GetPHash (SpecHash) *)

\* The image is degenerate: its bytes do not decode, or one of its sides is
\* under the minimum.
Degenerate(body) ==
    ~body.decodable \/ Min(body.width, body.height) < MinSide

\* C21: every degenerate image of the file gets pHash 0, and the images
\* after it get their pHash as well.
C21_DegenerateGivesZero ==
    /\ [](\A k \in 1..Len(call.pHash) :
           Degenerate(call.images[k]) => call.pHash[k] = PZero)
    /\ [][ call.op = "setHash" => Len(call'.pHash) = Len(call.pHash) + 1 ]_vars

-----------------------------------------------------------------------------
(* Properties of the matching of residual images (SpecFuzzy) *)

\* The two lists the matching starts from: the perceptual hashes of the
\* images of each file whose cryptographic hash the other file has not.
ResidualOf(file, other) ==
    LET U == SortedImages(Unpaired(file, other)) IN [n \in 1..Len(U) |-> U[n].pHash]

\* The matching loop of Compare has run: the merge walk left both lists
\* non-empty.
FuzzyRan(lhs, rhs) ==
    LET w == Walk(SortedImages(lhs.images), SortedImages(rhs.images), 1, 1, <<>>, <<>>)
    IN w.lp # <<>> /\ w.rp # <<>>

\* The residuals of the matching that takes the pairs in ascending order of
\* Hamming distance and consumes a pair within the threshold whose endpoints
\* are both unconsumed; pairs at the same distance are taken in any order.
RECURSIVE SortedGreedy(_, _)
SortedGreedy(lp, rp) ==
    LET pairs == { p \in (1..Len(lp)) \X (1..Len(rp)) :
                     PopCountXor(lp[p[1]], rp[p[2]]) <= m_threshold }
        best  == { p \in pairs : \A q \in pairs :
                     PopCountXor(lp[p[1]], rp[p[2]]) <= PopCountXor(lp[q[1]], rp[q[2]]) }
    IN IF pairs = {} THEN { [lp |-> lp, rp |-> rp] }
       ELSE UNION { SortedGreedy(RemoveAt(lp, p[1]), RemoveAt(rp, p[2])) : p \in best }

\* C23: when Compare matches residual images, the images it leaves
\* unmatched on each side, and the result it returns, are those of the
\* matching in ascending order of distance.
C23_MatchingIsSortedGreedy ==
    (Compared /\ FuzzyRan(cmp.lhs, cmp.rhs)) =>
       \E g \in SortedGreedy(ResidualOf(cmp.lhs, cmp.rhs), ResidualOf(cmp.rhs, cmp.lhs)) :
          /\ SameBag(g.lp, cmp.res.lp)
          /\ SameBag(g.rp, cmp.res.rp)
          /\ cmp.result = Classify(cmp.lhs, cmp.rhs, g)

-----------------------------------------------------------------------------
(* Properties of the title normalization (SpecTitle) *)

IsLetter(ch) == Category(ch) = "Letter_Lowercase"

AllOf(v, Test(_)) == v # <<>> /\ \A n \in 1..Len(v) : Test(v[n])

\* Title a is title b with one space put between a word and the number
\* that follows it.
SpacedNumber(a, b) ==
    \E n \in 1..(Len(b) - 1) :
       /\ AllOf(SubSeq(b, 1, n), IsLetter)
       /\ AllOf(SubSeq(b, n + 1, Len(b)), IsDigit)
       /\ a = SubSeq(b, 1, n) \o <<" ">> \o SubSeq(b, n + 1, Len(b))

\* C24: the tokens of a title hold the digit run of a word that ends in
\* digits, and two titles that differ by the space between a word and its
\* number have a token in common.
C24_DigitRunIsAToken ==
    (call.op = "tokens" /\ SpacedNumber(call.a, call.b)) =>
       /\ \E t \in call.tb : AllOf(t, IsDigit)
       /\ Intersect(call.ta, call.tb)

-----------------------------------------------------------------------------
(* Properties of the pending buckets (Spec) *)

\* C25: any two canonicals of a pending bucket are Varied, whichever of the
\* two is compared with the other.
C25_PendingCanonicalsAreVaried ==
    \A key \in Keys : \A i, j \in 1..Len(m_new[key]) :
       i # j => Compare(m_new[key][i].first, m_new[key][j].first) = {Varied}

-----------------------------------------------------------------------------
(* Properties of the queue counter (SpecPipe) *)

\* C26: m_queueSize never goes below zero (as the unsigned word it is, never
\* wraps), and is the number of payloads queued whenever no thread owns
\* m_queueGuard.
C26_QueueSizeCountsQueue ==
    /\ m_queueSize >= 0
    /\ m_queueGuard = {} => m_queueSize = Len(m_queue)

-----------------------------------------------------------------------------
(* flimerger: DuplicateObserver and the replacement map (Spec) *)

\* m_replacement.try_emplace(duplicate, file): the first report of a
\* duplicate stays.
OnDuplicateFound(m, file, duplicate) ==
    IF duplicate \in DOMAIN m THEN m
    ELSE [k \in DOMAIN m \cup {duplicate} |-> IF k = duplicate THEN file ELSE m[k]]

\* The map after the first n calls received by the observer.
RECURSIVE Replacement(_)
Replacement(n) ==
    IF n = 0 THEN [k \in {} |-> NoUid]
    ELSE OnDuplicateFound(Replacement(n - 1), observed[n].file, observed[n].duplicate)

m_replacement == Replacement(Len(observed))

\* The uids of the entries held in the pending buckets.
PendingUids ==
    UNION { UNION { { m_new[key][i].first.uid } \cup
                    { m_new[key][i].second[j].uid : j \in 1..Len(m_new[key][i].second) }
                    : i \in 1..Len(m_new[key]) }
            : key \in Keys }

\* Every Add so far brought a file of its own and all of them are pending.
AddedOnce == nSaves = 0 /\ Cardinality(PendingUids) = nAdds

\* C27: after Add calls with files all different, no origin in the
\* replacement map is itself a key of the map.
C27_ReportedOriginsAreCanonical ==
    AddedOnce => \A d \in DOMAIN m_replacement : m_replacement[d] \notin DOMAIN m_replacement

-----------------------------------------------------------------------------
(* Properties of the moves done by Save (Spec) *)

\* The number of duplicates in the lists of the slots bucket[i..].
RECURSIVE CountSeconds(_, _)
CountSeconds(bucket, i) ==
    IF i > Len(bucket) THEN 0
    ELSE Len(bucket[i].second) + CountSeconds(bucket, i + 1)

\* The number of duplicate files of the batch: the pending duplicate lists
\* and rejected.
RECURSIVE BatchDuplicates(_)
BatchDuplicates(keys) ==
    IF keys = {} THEN Len(m_dup)
    ELSE LET key == CHOOSE k \in keys : TRUE
         IN CountSeconds(m_new[key], 1) + BatchDuplicates(keys \ {key})

\* C28: a Save that moves duplicates calls rename once for each duplicate
\* file of the batch.
C28_EachDuplicateMovedOnce ==
    [][ (nSaves' = nSaves + 1 /\ last'.op = "Save" /\ last'.renamed # <<>>) =>
          Len(last'.renamed) = BatchDuplicates(Keys)
      ]_vars

-----------------------------------------------------------------------------
(* Properties of Compare on saved entries (SpecCompare) *)

\* The entry as Save leaves it in m_old.
Persisted(e) == Saved(ClearImages(e))

\* C29: the classification of a candidate against an entry is one that
\* Compare gives against the same entry once Save has stripped it.
C29_SaveKeepsClassification ==
    Compared => cmp.result \in Compare(Persisted(cmp.lhs), cmp.rhs)

-----------------------------------------------------------------------------
(* Properties of Compare with its arguments exchanged (SpecCompare) *)

\* The classification seen from the other side.
Mirror(r) == IF r = Inner THEN Outer ELSE IF r = Outer THEN Inner ELSE r

\* C30: when Compare(a, b) gives a classification, Compare(b, a) can give
\* the mirrored one: Outer for Inner, Inner for Outer, Equal for Equal and
\* Varied for Varied.
C30_CompareIsAntisymmetric ==
    Compared => Mirror(cmp.result) \in Compare(cmp.rhs, cmp.lhs)

=============================================================================
